---- MODULE Spec2Model ----
(***************************************************************************)
(* A model of src/c/noiseval.c: generate_random_value(x, y, seed), the     *)
(* integer hash behind the value-noise generator.                          *)
(*                                                                         *)
(* The C function works on `int` (signed, 32 bits).  Every `int` is a TLA+ *)
(* integer in INT_MIN..INT_MAX.  An operation whose exact result does not  *)
(* fit in `int` is undefined in C: the builds of this file either wrap the *)
(* result modulo 2^32 (the default code generation, -fwrapv) or stop the   *)
(* program (-ftrapv, -fsanitize=undefined).  Each line of the function is  *)
(* therefore two actions: the one that carries the wrapped value on, and   *)
(* the one that traps, enabled only where the line overflows.              *)
(*                                                                         *)
(* The returned double is kept exactly, as the fraction num/den: the       *)
(* quotient by 1073741824.0 (2^30) and the subtraction from 1.0 are both   *)
(* exact in binary64 for an integer below 2^31.                            *)
(***************************************************************************)
EXTENDS Integers, Sequences, FiniteSets, TLC

\* ---------------------------------------------------------------- bounds

\* Lattice coordinates and seeds are drawn from -MaxCoord..MaxCoord, plus the
\* fixed large-magnitude values below.
MaxCoord == 3

\* The calls whose results are compared pairwise take x, y, seed from
\* 0..MaxUnit, plus the fixed colliding values below.
MaxUnit == 1

\* ------------------------------------------------------------ the int type

INT_MAX == 2147483647

INT_MIN == -INT_MAX - 1

Int32 == INT_MIN..INT_MAX

\* a + b is not representable in int.
AddOverflows(a, b) ==
    \/ b > 0 /\ a > INT_MAX - b
    \/ b < 0 /\ a < INT_MIN - b

\* a + b modulo 2^32, as a signed 32-bit value.
WrapAdd(a, b) ==
    IF b > 0 /\ a > INT_MAX - b THEN (a + INT_MIN) + (b + INT_MIN)
    ELSE IF b < 0 /\ a < INT_MIN - b THEN (a - INT_MIN) + (b - INT_MIN)
    ELSE a + b

\* a * b is not representable in int.
MulOverflows(a, b) ==
    IF a = 0 \/ b = 0 THEN FALSE
    ELSE IF a > 0 /\ b > 0 THEN a > INT_MAX \div b
    ELSE IF a < 0 /\ b < 0
        THEN a = INT_MIN \/ b = INT_MIN \/ (-a) > INT_MAX \div (-b)
    ELSE LET p == IF a > 0 THEN a ELSE b
             q == IF a > 0 THEN b ELSE a
         IN  \* p > 0 > q: p * q < INT_MIN iff q < ceiling(INT_MIN / p)
             p > 1 /\ q < -((INT_MAX \div p)
                             + (IF INT_MAX % p = p - 1 THEN 1 ELSE 0))

\* Byte i (0..3) of the two's-complement representation of a.
Byte(a, i) ==
    IF i = 0 THEN a % 256
    ELSE IF i = 1 THEN (a \div 256) % 256
    ELSE IF i = 2 THEN (a \div 65536) % 256
    ELSE (a \div 16777216) % 256

\* The signed 32-bit value whose top byte is top and low 24 bits are low.
FromTop(top, low) ==
    (IF top >= 128 THEN top - 256 ELSE top) * 16777216 + low

\* a * b modulo 2^32, as a signed 32-bit value: the long multiplication of
\* the bytes, the columns above bit 31 dropped.
WrapMul(a, b) ==
    LET c0 == Byte(a, 0) * Byte(b, 0)
        c1 == Byte(a, 0) * Byte(b, 1) + Byte(a, 1) * Byte(b, 0)
        c2 == Byte(a, 0) * Byte(b, 2) + Byte(a, 1) * Byte(b, 1)
              + Byte(a, 2) * Byte(b, 0)
        c3 == Byte(a, 0) * Byte(b, 3) + Byte(a, 1) * Byte(b, 2)
              + Byte(a, 2) * Byte(b, 1) + Byte(a, 3) * Byte(b, 0)
        s == c0 + (c1 % 65536) * 256 + (c2 % 256) * 65536
        top == (c3 + (c1 \div 65536) + (c2 \div 256) + (s \div 16777216)) % 256
    IN  FromTop(top, s % 16777216)

\* a & 0x7fffffff: bit 31 cleared.
Mask31(a) == IF a >= 0 THEN a ELSE (a + INT_MAX) + 1

\* a << 13 is not representable in int (C11 6.5.7p4: a negative, or
\* a * 2^13 above INT_MAX).
ShlOverflows(a) == a < 0 \/ a >= 262144

\* a << 13 modulo 2^32, as a signed 32-bit value: the low 19 bits of a move
\* up, bit 18 becomes the sign.
Shl13(a) ==
    LET low == a % 524288
    IN  IF low >= 262144 THEN (low - 524288) * 8192 ELSE low * 8192

\* a ^ b for a, b in 0..65535.
RECURSIVE Xor16(_, _)
Xor16(a, b) ==
    IF a = 0 THEN b
    ELSE IF b = 0 THEN a
    ELSE 2 * Xor16(a \div 2, b \div 2) + (((a % 2) + (b % 2)) % 2)

\* a ^ b on signed 32-bit values: the two 16-bit halves apart.
Xor(a, b) ==
    LET hi == Xor16((a \div 65536) % 65536, (b \div 65536) % 65536)
        lo == Xor16(a % 65536, b % 65536)
    IN  (IF hi >= 32768 THEN hi - 65536 ELSE hi) * 65536 + lo

\* ------------------------------------------------------------------ state

VARIABLES
    pc,       \* where the call stands: "ready", "line2", "line3", "line4",
              \* "returned", "trapped"
    x,        \* the argument x
    y,        \* the argument y
    seed,     \* the argument seed
    n,        \* the local n
    result,   \* the value returned
    prev      \* the caller's record of earlier calls, the last kept one only:
              \* a sequence of at most one [args, value]

vars == <<pc, x, y, seed, n, result, prev>>

\* ------------------------------------------------- generate_random_value

\* Line 2 without the mask.
combineNoMask(cx, cy, cseed) ==
    WrapAdd(WrapAdd(WrapMul(cx, 157), WrapMul(cy, 31337)), WrapMul(cseed, 2633))

\* Line 2 with a value retained from the calls before.
combineRetained(cx, cy, cseed) ==
    Mask31(WrapAdd(WrapAdd(WrapAdd(WrapMul(cx, 157), WrapMul(cy, 31337)),
                           WrapMul(cseed, 2633)),
                   Len(prev)))

\* Line 2 with y given x's multiplier.
combineSameFactor(cx, cy, cseed) ==
    Mask31(WrapAdd(WrapAdd(WrapMul(cx, 157), WrapMul(cy, 157)),
                   WrapMul(cseed, 2633)))

\* Line 2 with the seed's multiplier mistyped.
combineTypo(cx, cy, cseed) ==
    Mask31(WrapAdd(WrapAdd(WrapMul(cx, 157), WrapMul(cy, 31337)),
                   WrapMul(cseed, 2663)))

\* Line 2: ((x * 157) + (y * 31337) + (seed * 2633)) & 0x7fffffff.
combine(cx, cy, cseed) ==
    Mask31(WrapAdd(WrapAdd(WrapMul(cx, 157), WrapMul(cy, 31337)),
                   WrapMul(cseed, 2633)))

\* Line 2 leaves int: one of the three products or of the two sums overflows.
Line2Overflows(cx, cy, cseed) ==
    LET a == WrapMul(cx, 157)
        b == WrapMul(cy, 31337)
        c == WrapMul(cseed, 2633)
    IN  \/ MulOverflows(cx, 157)
        \/ MulOverflows(cy, 31337)
        \/ MulOverflows(cseed, 2633)
        \/ AddOverflows(a, b)
        \/ AddOverflows(WrapAdd(a, b), c)

\* Line 3 with the mask of line 2 repeated.
remixMasked(m) == Mask31(Xor(Shl13(m), m))

\* Line 3: (n << 13) ^ n.
remix(m) == Xor(Shl13(m), m)

\* Line 3 leaves int: the shift does.
Line3Overflows(m) == ShlOverflows(m)

\* Line 4 with the additive constant mistyped.
hashTermTypo(m) ==
    Mask31(WrapAdd(WrapMul(m, WrapAdd(WrapMul(WrapMul(m, m), 15731), 789221)),
                   1376312589))

\* Line 4 made non-negative by the absolute value instead of the mask.
hashTermAbs(m) ==
    LET t == WrapAdd(WrapMul(m, WrapAdd(WrapMul(WrapMul(m, m), 15731), 789221)),
                     1376312579)
    IN  IF t >= 0 THEN t ELSE IF t = INT_MIN THEN INT_MAX ELSE -t

\* Line 4, the integer operand of the division:
\* (n * (n * n * 15731 + 789221) + 1376312579) & 0x7fffffff.
hashTerm(m) ==
    Mask31(WrapAdd(WrapMul(m, WrapAdd(WrapMul(WrapMul(m, m), 15731), 789221)),
                   1376312579))

\* Line 4 leaves int: one of the three products or of the two sums overflows.
Line4Overflows(m) ==
    LET sq == WrapMul(m, m)
        cu == WrapMul(sq, 15731)
        in == WrapAdd(cu, 789221)
        pr == WrapMul(m, in)
    IN  \/ MulOverflows(m, m)
        \/ MulOverflows(sq, 15731)
        \/ AddOverflows(cu, 789221)
        \/ MulOverflows(m, in)
        \/ AddOverflows(pr, 1376312579)

\* Line 4 without the subtraction from 1.0.
normalizeNoComplement(t) == [num |-> t, den |-> 1073741824]

\* Line 4 dividing by 2^29.
normalizeHalfScale(t) == [num |-> 536870912 - t, den |-> 536870912]

\* Line 4, the double returned: 1.0 - t / 1073741824.0, as an exact fraction.
normalize(t) == [num |-> 1073741824 - t, den |-> 1073741824]

\* ------------------------------------------------------------ the caller

\* No value: an argument or local outside a call, a result not yet returned.
Undef == "undef"

\* Values beyond the small lattice: the large magnitudes, and the multipliers
\* of line 2 (x + 2633 with seed - 157 leaves line 2's sum unchanged).
Large == {INT_MIN, -2000000000, 65536, 1073741824, 2000000000, INT_MAX}

Coords == -MaxCoord..MaxCoord

Xs == Coords \cup Large \cup {2633}

Ys == Coords \cup {INT_MIN, INT_MAX}

Seeds == Coords \cup {-2000000000, 2000000000, -157}

\* The arguments of the calls compared pairwise.
PairXs == (0..MaxUnit) \cup {2633, INT_MIN}

PairYs == 0..MaxUnit

PairSeeds == (0..MaxUnit) \cup {-157}

Init ==
    /\ pc = "ready"
    /\ x = Undef
    /\ y = Undef
    /\ seed = Undef
    /\ n = Undef
    /\ result = Undef
    /\ prev = <<>>

\* The caller calls generate_random_value(cx, cy, cseed).
Enter(cx, cy, cseed) ==
    /\ pc = "ready"
    /\ pc' = "line2"
    /\ x' = cx
    /\ y' = cy
    /\ seed' = cseed
    /\ n' = Undef
    /\ result' = Undef
    /\ UNCHANGED prev

Call == \E cx \in Xs, cy \in Ys, cseed \in Seeds : Enter(cx, cy, cseed)

CallPair ==
    \E cx \in PairXs, cy \in PairYs, cseed \in PairSeeds : Enter(cx, cy, cseed)

\* int n = (...) & 0x7fffffff;
Line2 ==
    /\ pc = "line2"
    /\ n' = combine(x, y, seed)
    /\ pc' = "line3"
    /\ UNCHANGED <<x, y, seed, result, prev>>

\* Line 2 in a build that stops on signed overflow.
Line2Trap ==
    /\ pc = "line2"
    /\ Line2Overflows(x, y, seed)
    /\ pc' = "trapped"
    /\ UNCHANGED <<x, y, seed, n, result, prev>>

\* n = (n << 13) ^ n;
Line3 ==
    /\ pc = "line3"
    /\ n' = remix(n)
    /\ pc' = "line4"
    /\ UNCHANGED <<x, y, seed, result, prev>>

\* Line 3 in a build that stops on a shift that leaves int.
Line3Trap ==
    /\ pc = "line3"
    /\ Line3Overflows(n)
    /\ pc' = "trapped"
    /\ UNCHANGED <<x, y, seed, n, result, prev>>

\* return (1.0 - (... & 0x7fffffff) / 1073741824.0);
Line4 ==
    /\ pc = "line4"
    /\ result' = normalize(hashTerm(n))
    /\ pc' = "returned"
    /\ UNCHANGED <<x, y, seed, n, prev>>

\* Line 4 in a build that stops on signed overflow.
Line4Trap ==
    /\ pc = "line4"
    /\ Line4Overflows(n)
    /\ pc' = "trapped"
    /\ UNCHANGED <<x, y, seed, n, result, prev>>

\* The caller takes the result and is ready to call again.
Resume ==
    /\ pc = "returned"
    /\ pc' = "ready"
    /\ x' = Undef
    /\ y' = Undef
    /\ seed' = Undef
    /\ n' = Undef
    /\ result' = Undef
    /\ UNCHANGED prev

\* The same, the caller keeping this call's arguments and result to compare
\* with a later call's.
Keep ==
    /\ pc = "returned"
    /\ pc' = "ready"
    /\ prev' = <<[args |-> <<x, y, seed>>, value |-> result]>>
    /\ x' = Undef
    /\ y' = Undef
    /\ seed' = Undef
    /\ n' = Undef
    /\ result' = Undef

generate_random_value == Line2 \/ Line2Trap \/ Line3 \/ Line3Trap \/ Line4 \/ Line4Trap

\* One caller, one call after another, over the full input sets.
Next == Call \/ generate_random_value \/ Resume

Spec == Init /\ [][Next]_vars

\* One caller comparing each call with an earlier one.
NextPair == CallPair \/ generate_random_value \/ Resume \/ Keep

SpecPair == Init /\ [][NextPair]_vars

\* ------------------------------------------------- independent arithmetic

\* (a + b) mod 2^31, for a, b in 0..2^31-1.
AddMod31(a, b) == IF a > INT_MAX - b THEN (a - INT_MAX) + (b - 1) ELSE a + b

\* (a * c) mod 2^31, for a in 0..2^31-1 and a multiplier 0 <= c < 32768.
MulMod31(a, c) ==
    AddMod31((((a \div 65536) * c) % 32768) * 65536, (a % 65536) * c)

\* (157 x + 31337 y + 2633 seed) mod 2^31 of the arguments t = <<x, y, seed>>,
\* every term reduced modulo 2^31 first.
LinMod31(t) ==
    AddMod31(AddMod31(MulMod31(Mask31(t[1]), 157), MulMod31(Mask31(t[2]), 31337)),
             MulMod31(Mask31(t[3]), 2633))

\* The first five decimals of |r|, r a fraction over 2^30:
\* floor(|num| * 10^5 / 2^30) = floor(|num| * 3125 / 2^25).
Decimals5(r) ==
    LET m == IF r.num < 0 THEN -r.num ELSE r.num
        a == m \div 33554432
        b == m % 33554432
    IN  a * 3125 + ((b \div 8192) * 3125 + ((b % 8192) * 3125) \div 8192) \div 4096

\* a with bit 31 flipped.
FlipSign(a) == IF a < 0 THEN (a + INT_MAX) + 1 ELSE (a - INT_MAX) - 1

\* unsigned int, as <<high 16 bits, low 16 bits>>.
ToU(a) == <<(a \div 65536) % 65536, a % 65536>>

UAdd(u, v) ==
    <<(u[1] + v[1] + (u[2] + v[2]) \div 65536) % 65536, (u[2] + v[2]) % 65536>>

\* u * k for 0 <= k < 256.
UMulByte(u, k) ==
    <<(u[1] * k + (u[2] * k) \div 65536) % 65536, (u[2] * k) % 65536>>

UShl8(u) == <<(u[1] * 256 + u[2] \div 256) % 65536, (u[2] % 256) * 256>>

\* u * v modulo 2^32, the bytes of v taken from the top down.
UMul(u, v) ==
    LET a3 == UMulByte(u, v[1] \div 256)
        a2 == UAdd(UShl8(a3), UMulByte(u, v[1] % 256))
        a1 == UAdd(UShl8(a2), UMulByte(u, v[2] \div 256))
    IN  UAdd(UShl8(a1), UMulByte(u, v[2] % 256))

UShl13(u) ==
    <<(u[1] * 8192 + (u[2] * 8192) \div 65536) % 65536, (u[2] * 8192) % 65536>>

UXor(u, v) == <<Xor16(u[1], v[1]), Xor16(u[2], v[2])>>

\* Lines 3 and 4 in unsigned 32-bit arithmetic, from the value m of line 2:
\* the masked operand of the division.
UnsignedTerm(m) ==
    LET u == UXor(UShl13(ToU(m)), ToU(m))
        t == UAdd(UMul(u, UAdd(UMul(UMul(u, u), ToU(15731)), ToU(789221))),
                  ToU(1376312579))
    IN  (t[1] % 32768) * 65536 + t[2]

\* ----------------------------------------------------------------- claims

\* The arguments of the call in progress.
Args == <<x, y, seed>>

Active == pc # "ready"

Kept == Len(prev) = 1

UnitArgs == {<<0, 0, 0>>, <<1, 0, 0>>, <<0, 1, 0>>, <<0, 0, 1>>}

\* C1: every value generate_random_value returns, whatever the arguments
\* (x = 2000000000, whose line-2 product overflows, included), lies in
\* [-1.0, 1.0): -1.0 <= r and r < 1.0.
C1_Range ==
    pc = "returned" => -result.den <= result.num /\ result.num < result.den

C1_Witness ==
    /\ pc = "returned"
    /\ x = 2000000000
    /\ MulOverflows(x, 157)

\* C2 as amended: for (0, 0, 0) line 2 leaves n = 0, line 3 leaves n = 0, no
\* line overflows, and the value returned is exactly
\* 1.0 - 1376312579/1073741824.0, whose decimal expansion begins -0.28179.
C2_Zero ==
    (Active /\ Args = <<0, 0, 0>>) =>
        /\ pc # "trapped"
        /\ pc \in {"line3", "line4", "returned"} => n = 0
        /\ pc = "returned" =>
            /\ result = [num |-> 1073741824 - 1376312579, den |-> 1073741824]
            /\ result.num < 0
            /\ Decimals5(result) = 28179

C2_Witness == pc = "returned" /\ Args = <<0, 0, 0>>

\* C2 as stated: for (0, 0, 0) the value returned is exactly
\* 1.0 - 1376312579/1073741824.0 and its decimal expansion is about -0.28157.
C2_AsStated ==
    (pc = "returned" /\ Args = <<0, 0, 0>>) =>
        /\ n = 0
        /\ result = [num |-> 1073741824 - 1376312579, den |-> 1073741824]
        /\ result.num < 0
        /\ Decimals5(result) = 28157

C4_UnitsDistinct ==
    (/\ pc = "returned"
     /\ Kept
     /\ Args \in UnitArgs
     /\ prev[1].args \in UnitArgs
     /\ prev[1].args # Args) => prev[1].value # result

C4_Witness ==
    /\ pc = "returned"
    /\ Kept
    /\ prev[1].args = <<1, 0, 0>>
    /\ Args = <<0, 1, 0>>

\* C5: the function is total: no call, whatever the arguments, ends in a
\* trap; overflow in the multiplies, the adds and the shift only wraps.
C5_NeverTraps == pc # "trapped"

\* C6: after line 2, n is in 0..2^31-1 and is the low 31 bits of
\* 157 x + 31337 y + 2633 seed, whatever the sign or size of that sum.
C6_Step1NonNegative ==
    pc = "line3" => n \in 0..INT_MAX /\ n = LinMod31(Args)

C6_Witness ==
    /\ pc = "line3"
    /\ x < 0
    /\ Line2Overflows(x, y, seed)
    /\ combineNoMask(x, y, seed) < 0

\* C7: line 3 keeps all 32 bits of (n << 13) ^ n: bit 31 is bit 18 of the
\* line-2 value, so n is negative for some arguments, the low 13 bits are the
\* line-2 value's, and it is this n that line 4 reads.
C7_Step2Unmasked ==
    pc \in {"line4", "returned"} =>
        LET n1 == combine(x, y, seed)
        IN  /\ n \in Int32
            /\ (n < 0) <=> ((n1 \div 262144) % 2 = 1)
            /\ n % 8192 = n1 % 8192
            /\ ToU(n) = UXor(UShl13(ToU(n1)), ToU(n1))

C7_Witness == pc = "returned" /\ n < 0

\* C8: two calls whose 157 x + 31337 y + 2633 seed agree modulo 2^31 return
\* the same value; so do (x, y, seed) and (x + 2633, y, seed - 157).
C8_Collisions ==
    (pc = "returned" /\ Kept) =>
        LET p == prev[1].args
        IN  /\ LinMod31(p) = LinMod31(Args) => prev[1].value = result
            /\ (x = p[1] + 2633 /\ y = p[2] /\ seed = p[3] - 157)
                   => prev[1].value = result

C8_Witness ==
    /\ pc = "returned"
    /\ Kept
    /\ prev[1].args = <<0, 1, 0>>
    /\ Args = <<2633, 1, -157>>

\* C9: the value returned is 1 - m / 2^30 for the integer m in 0..2^31-1 that
\* line 4 masks: its 2^30-fold is an integer, it is above -1.0 and at most
\* 1.0, and it is 1.0 exactly when m = 0.
C9_Lattice ==
    pc = "returned" =>
        LET m == hashTerm(n)
        IN  /\ m \in 0..INT_MAX
            /\ result.den = 1073741824
            /\ result.num = result.den - m
            /\ -result.den < result.num
            /\ result.num <= result.den
            /\ (result.num = result.den) <=> (m = 0)

C9_Witness == pc = "returned" /\ hashTerm(n) > 1073741824 /\ result.num < 0

\* C10: the value returned depends on the low 31 bits of the line-3 value
\* only: it is the same with bit 31 of n flipped, and the same with lines 3
\* and 4 carried out in unsigned arithmetic.
C10_SignBlind ==
    pc = "returned" =>
        /\ result.num = 1073741824 - hashTerm(FlipSign(n))
        /\ result.num = 1073741824 - UnsignedTerm(combine(x, y, seed))

C10_Witness == pc = "returned" /\ n < 0 /\ n % 2 = 0 /\ Line4Overflows(n)

====
